---- MODULE Spec2Model ----
(***************************************************************************)
(* A model of securitylib/passwords.py: the password entropy estimator.    *)
(*                                                                         *)
(* Strings are sequences of one-character strings.  Entropy values are     *)
(* integers counted in units of 1/Unit bit, which represents exactly every *)
(* weight get_NIST_num_bits can add (4, 2, 1.5, 1 times a multiplier in    *)
(* {1, 3/4, 9/16, 27/64, 2/5}); the code adds them as floats, whose        *)
(* rounding of 0.4 the model does not follow.  The value get_entropy_bits  *)
(* returns is counted in units of 1/(Unit*Milli) bit.                      *)
(***************************************************************************)
EXTENDS Integers, Sequences, FiniteSets, TLC

\* ------------------------------------------------------------------ bounds

\* Longest password drawn from the whole alphabet PassChars.
MaxLen == 4
\* Longest operand of longest_common_substring in SpecLCS.
MaxLcsLen == 4
\* Pieces concatenated into an input of the stripper in SpecStrip.
MaxPieces == 3
\* Calls of load_dict_words each thread makes in SpecLoad.
MaxCalls == 2

\* ------------------------------------------------------ program constants

NUL == "^@"

LowerSeq ==
    <<"a", "b", "c", "d", "e", "f", "g", "h", "i", "j", "k", "l", "m",
      "n", "o", "p", "q", "r", "s", "t", "u", "v", "w", "x", "y", "z">>

UpperSeq ==
    <<"A", "B", "C", "D", "E", "F", "G", "H", "I", "J", "K", "L", "M",
      "N", "O", "P", "Q", "R", "S", "T", "U", "V", "W", "X", "Y", "Z">>

DigitSeq == <<"0", "1", "2", "3", "4", "5", "6", "7", "8", "9">>

KEYBOARD_SEQUENCES ==
    << <<"1", "2", "3", "4", "5", "6", "7", "8", "9", "0", "q", "w", "e", "r", "t", "y", "u", "i", "o", "p", "a", "s", "d", "f", "g", "h", "j", "k", "l", "z", "x", "c", "v", "b", "n", "m">>,
       <<"1", "q", "a", "z", "2", "w", "s", "x", "3", "e", "d", "c", "4", "r", "f", "v", "5", "t", "g", "b", "6", "y", "h", "n", "7", "u", "j", "m", "8", "i", "k", "9", "o", "l", "0", "p">>,
       <<"q", "a", "z", "w", "s", "x", "e", "d", "c", "r", "f", "v", "t", "g", "b", "y", "h", "n", "u", "j", "m", "i", "k", "o", "l", "p">>,
       <<"0", "1", "4", "7", "2", "5", "8", "3", "6", "9">>,
       <<"1", "4", "7", "0", "2", "5", "8", "3", "6", "9">>,
       <<"7", "8", "9", "4", "5", "6", "1", "2", "3", "0">>,
       <<"a", "b", "c", "d", "e", "f", "g", "h">>,
       <<"1", "3", "5", "7", "9">>,
       <<"0", "2", "4", "6", "8">>,
       <<"a", "1", "b", "2", "c", "3", "d", "4", "e", "5", "f", "6", "g", "7", "h", "8", "i", "9", "j", "0">> >>

\* The separators of LICENCE_PLATE_REGEX: [.\-_]
PlateSeparators == {".", "-", "_"}

\* string.maketrans('@!$1234567890', 'aisizeasgtbgo') and its second form.
LeetFrom == <<"@", "!", "$", "1", "2", "3", "4", "5", "6", "7", "8", "9", "0">>
leetspeakmap == <<"a", "i", "s", "i", "z", "e", "a", "s", "g", "t", "b", "g", "o">>
leetspeakmap2 == <<"a", "i", "s", "l", "z", "e", "a", "s", "g", "t", "b", "g", "o">>

minwordlen == 3
minword_accept_len == 6

\* One bit of entropy, in model units.
Unit == 640
\* Scale of the keyspace multiplier (thousandths).
Milli == 1000

\* ----------------------------------------------------------- string helpers

Range(s) == {s[i] : i \in DOMAIN s}

Min(a, b) == IF a <= b THEN a ELSE b

Max(a, b) == IF a >= b THEN a ELSE b

\* s[i:j] of Python for 0 <= i, 0 <= j (0-based, end exclusive, clipped).
Slice(s, i, j) ==
    LET e == Min(j, Len(s))
    IN  IF i >= e THEN <<>> ELSE [k \in 1..(e - i) |-> s[i + k]]

\* The position of ch in the sequence tab, 0 when absent.
PosIn(ch, tab) ==
    IF \E i \in DOMAIN tab : tab[i] = ch
    THEN CHOOSE i \in DOMAIN tab : tab[i] = ch /\ \A j \in 1..(i - 1) : tab[j] # ch
    ELSE 0

\* sub occurs in s at the 0-based offset i.
OccursAt(sub, s, i) ==
    /\ i >= 0
    /\ i + Len(sub) <= Len(s)
    /\ \A k \in 1..Len(sub) : s[i + k] = sub[k]

\* Python's `sub in s`.
Contains(s, sub) == \E i \in 0..(Len(s) - Len(sub)) : OccursAt(sub, s, i)

\* Python's s.index(sub), for sub in s.
IndexOf(s, sub) ==
    CHOOSE i \in 0..(Len(s) - Len(sub)) :
        /\ OccursAt(sub, s, i)
        /\ \A j \in 0..(i - 1) : ~OccursAt(sub, s, j)

char_is_lower(char) == char \in Range(LowerSeq)

char_is_upper(char) == char \in Range(UpperSeq)

char_is_digit(char) == char \in Range(DigitSeq)

\* str.lower() on one character.
LowerChar(ch) == IF char_is_upper(ch) THEN LowerSeq[PosIn(ch, UpperSeq)] ELSE ch

StrLower(s) == [i \in DOMAIN s |-> LowerChar(s[i])]

\* str.translate(table) for a table made by maketrans(LeetFrom, to).
Translate(s, to) ==
    [i \in DOMAIN s |-> IF PosIn(s[i], LeetFrom) = 0 THEN s[i] ELSE to[PosIn(s[i], LeetFrom)]]

reverse_string(s) == [i \in DOMAIN s |-> s[Len(s) + 1 - i]]

\* All strings over the alphabet chars of length at most n.
StringsUpTo(chars, n) == UNION {[1..k -> chars] : k \in 0..n}

\* -------------------------------------------------- longest_common_substring

\* The state of the outer loop before any row: m1 (the previous row),
\* longest and x_longest.
LcsInit(s2) == [m1 |-> [y \in 0..Len(s2) |-> 0], longest |-> 0, x_longest |-> 0]

\* The row m2 the inner loop computes for the character s1[x].
LcsRow(m1, s1, s2, x) ==
    [y \in 0..Len(s2) |->
        IF y = 0 THEN 0
        ELSE IF s1[x] = s2[y] THEN m1[y - 1] + 1 ELSE 0]

\* The update of longest by one cell of the row.
LcsBetterMutant(cell, longest) == cell >= longest

LcsBetter(cell, longest) == cell > longest

\* One iteration of the outer loop: the inner loop over s2, then the swap
\* of the rows.
LcsStep(st, s1, s2, x) ==
    LET m2 == LcsRow(st.m1, s1, s2, x)
        best == CHOOSE v \in Range(m2) : \A w \in Range(m2) : w <= v
    IN  [m1 |-> m2,
         longest |-> IF LcsBetter(best, st.longest) THEN best ELSE st.longest,
         x_longest |-> IF LcsBetter(best, st.longest) THEN x ELSE st.x_longest]

RECURSIVE LcsRun(_, _, _)
LcsRun(s1, s2, x) ==
    IF x = 0 THEN LcsInit(s2)
    ELSE LET st == LcsRun(s1, s2, x - 1)
         \* The comparison makes TLC compute the row m1 before the next row
         \* reads it; it is always true.
         IN  IF st.m1 = st.m1 THEN LcsStep(st, s1, s2, x) ELSE st

\* The returned pair (start, s1[start:x_longest]).
LcsReturn(st, s1) ==
    LET start == st.x_longest - st.longest
    IN  [start |-> start, sub |-> Slice(s1, start, st.x_longest)]

longest_common_substring(s1, s2) == LcsReturn(LcsRun(s1, s2, Len(s1)), s1)

\* ------------------------------------------------------------ remove_sequence

\* What replaces a matched span lcs: as many sentinels as the span is long.
PlaceholderMutant(lcs) == [i \in 1..Len(lcs) |-> NUL]

\* What replaces a matched span lcs: '\x00\x00'.
Placeholder(lcs) == <<NUL, NUL>>

RECURSIVE remove_sequence(_, _)

\* remove_sequence without the recursion on the right remainder.
remove_sequenceMutant(string, keyboard_seq) ==
    LET r == longest_common_substring(string, keyboard_seq)
    IN  IF Len(r.sub) > 2
        THEN remove_sequence(Slice(string, 0, r.start), keyboard_seq)
                \o Placeholder(r.sub)
                \o Slice(string, r.start + Len(r.sub), Len(string))
        ELSE string

remove_sequence(string, keyboard_seq) ==
    LET r == longest_common_substring(string, keyboard_seq)
    IN  IF Len(r.sub) > 2
        THEN remove_sequence(Slice(string, 0, r.start), keyboard_seq)
                \o Placeholder(r.sub)
                \o remove_sequence(Slice(string, r.start + Len(r.sub), Len(string)),
                                   keyboard_seq)
        ELSE string

\* The inner loop of get_entropy_bits over KEYBOARD_SEQUENCES, entries 1..n.
RECURSIVE StripUpTo(_, _)
StripUpTo(s, n) ==
    IF n = 0 THEN s
    ELSE LET tmp_pass == StripUpTo(s, n - 1)
         IN  IF tmp_pass = <<>> THEN <<>>
             ELSE remove_sequence(tmp_pass, KEYBOARD_SEQUENCES[n])

StripAll(s) == StripUpTo(s, Len(KEYBOARD_SEQUENCES))

\* ------------------------------------------------------ handle_license_plates

char_is_letter(char) == char_is_lower(char) \/ char_is_upper(char)

\* One group of LICENCE_PLATE_REGEX: [0-9]{2}|[a-zA-Z]{2}
IsPlateGroup(c1, c2) ==
    \/ char_is_digit(c1) /\ char_is_digit(c2)
    \/ char_is_letter(c1) /\ char_is_letter(c2)

\* LICENCE_PLATE_REGEX matches pwd at the 0-based offset i.
PlateMatchAt(pwd, i) ==
    /\ i + 8 <= Len(pwd)
    /\ IsPlateGroup(pwd[i + 1], pwd[i + 2])
    /\ pwd[i + 3] \in PlateSeparators
    /\ IsPlateGroup(pwd[i + 4], pwd[i + 5])
    /\ pwd[i + 6] \in PlateSeparators
    /\ IsPlateGroup(pwd[i + 7], pwd[i + 8])

\* LICENCE_PLATE_REGEX.search(pwd): the offset of the leftmost match, -1 for None.
PlateSearch(pwd) ==
    IF \E i \in 0..(Len(pwd) - 8) : PlateMatchAt(pwd, i)
    THEN CHOOSE i \in 0..(Len(pwd) - 8) :
             PlateMatchAt(pwd, i) /\ \A j \in 0..(i - 1) : ~PlateMatchAt(pwd, j)
    ELSE -1

\* ''.join(filter(None, m.groups())) for the match at offset start.
PlateGroups(pwd, start) ==
    <<pwd[start + 1], pwd[start + 2], pwd[start + 4], pwd[start + 5],
      pwd[start + 7], pwd[start + 8]>>

\* c.islower()
islower(c) == char_is_lower(c)

handle_license_plates(pwd) ==
    LET start == PlateSearch(pwd)
    IN  IF start < 0 THEN pwd
        ELSE LET filtered_license == PlateGroups(pwd, start)
                 count_letters ==
                     Cardinality({k \in DOMAIN filtered_license : islower(filtered_license[k])})
             IN  IF count_letters = 2
                 THEN Slice(pwd, 0, start) \o filtered_license \o Slice(pwd, start + 8, Len(pwd))
                 ELSE pwd

\* ---------------------------------------------------------- get_NIST_num_bits

\* charmult[tempchr] = max(charmult[tempchr] * 0.75, 0.4), in 1/Unit.
Decay(mult) == Max((mult * 3) \div 4, (Unit * 2) \div 5)

\* The first position that weighs 1 in the repetition-aware loop (i >= 19).
RepeatTailFrom(i) == i >= 19

\* What position i (0-based) adds, given the multiplier of its character.
PositionBits(i, mult) ==
    IF RepeatTailFrom(i) THEN mult
    ELSE IF i >= 8 THEN (mult * 3) \div 2
    ELSE IF i >= 1 THEN mult * 2
    ELSE 4 * Unit

\* The loop of the repeatcalc branch after its first n iterations.
RECURSIVE NistRepeatLoop(_, _)
NistRepeatLoop(pwd, n) ==
    IF n = 0 THEN [result |-> 0, charmult |-> [c \in Range(pwd) |-> Unit]]
    ELSE LET prev == NistRepeatLoop(pwd, n - 1)
             tempchr == pwd[n]
         IN  [result |-> prev.result + PositionBits(n - 1, prev.charmult[tempchr]),
              charmult |-> [prev.charmult EXCEPT ![tempchr] = Decay(@)]]

get_NIST_num_bits(pwd, repeatcalc) ==
    LET passlen == Len(pwd)
    IN  IF repeatcalc THEN NistRepeatLoop(pwd, passlen).result
        ELSE IF passlen > 20 THEN (4 + 7 * 2) * Unit + 12 * ((Unit * 3) \div 2) + (passlen - 20) * Unit
        ELSE IF passlen > 8 THEN (4 + 7 * 2) * Unit + (passlen - 8) * ((Unit * 3) \div 2)
        ELSE IF passlen > 1 THEN 4 * Unit + (passlen - 1) * 2 * Unit
        ELSE IF passlen = 1 THEN 4 * Unit
        ELSE 0

\* ------------------------------------------------- PassVariant, KeepMinDict

\* A PassVariant object: id is its identity (the rank of its insertion).
PassVariant(pwd, entropy, id) == [password |-> pwd, entropy |-> entropy, id |-> id]

\* value < self[key], by PassVariant.__cmp__; the mutant also replaces on ties.
PassVariantLessMutant(value, other) == value.entropy <= other.entropy

PassVariantLess(value, other) == value.entropy < other.entropy

\* KeepMinDict.__setitem__
KeepMinDict_setitem(d, key, value) ==
    IF key \notin DOMAIN d \/ PassVariantLess(value, d[key])
    THEN [k \in DOMAIN d \cup {key} |-> IF k = key THEN value ELSE d[k]]
    ELSE d

\* ------------------------------------------------------ dictionary detection

Falsy(dw) == dw.isNone \/ dw.words = <<>>

\* What load_dict_words leaves in DICT_WORDS, given the lines of the file.
load_dict_words(dw, file) == IF Falsy(dw) THEN [isNone |-> FALSE, words |-> file] ELSE dw

\* ''.join(char for char in cur_pass.password if char != '\x00')
CleanPass(s) == SelectSeq(s, LAMBDA ch : ch # NUL)

CountLower(s) == Cardinality({i \in DOMAIN s : char_is_lower(s[i])})

get_substrings_set(string, min_length) ==
    UNION {{Slice(string, substr_start, substr_start + substr_len) :
               substr_start \in 0..(Len(string) - substr_len)} :
           substr_len \in min_length..Len(string)}

\* The for loop over dict_words from its i-th word on: TRUE when it ends by
\* break, FALSE when it runs out of words (and its else clause runs).
RECURSIVE ScanBreaks(_, _, _, _, _)
ScanBreaks(dict_words, i, clean_pass, n_alpha_chars, substr_set) ==
    IF i > Len(dict_words) THEN FALSE
    ELSE LET dict_word == dict_words[i]
             rest == ScanBreaks(dict_words, i + 1, clean_pass, n_alpha_chars, substr_set)
         IN  IF dict_word \in substr_set /\ Contains(clean_pass, dict_word)
             THEN IF Len(dict_word) >= minword_accept_len THEN TRUE
                  ELSE IF Len(dict_word) * 2 <= n_alpha_chars THEN rest
                  ELSE LET start_match == IndexOf(clean_pass, dict_word)
                       IN  IF start_match = 0 THEN TRUE
                           ELSE IF ~char_is_lower(clean_pass[start_match]) THEN TRUE
                           ELSE rest
             ELSE rest

\* The bonus the dictionary stage adds to a variant whose clean string is long
\* enough to be scanned.
NoWordBonus == 6 * Unit

\* The for/else of the dictionary stage sits inside `if len(clean_pass) >=
\* minwordlen`: the bonus the stage adds to the variant pwd.
DictBonus(pwd, dict_words) ==
    LET clean_pass == CleanPass(pwd)
        n_alpha_chars == CountLower(clean_pass)
    IN  IF Len(clean_pass) >= minwordlen
        THEN IF ScanBreaks(dict_words, 1, clean_pass, n_alpha_chars,
                           get_substrings_set(clean_pass, minwordlen))
             THEN 0 ELSE NoWordBonus
        ELSE 0

\* ------------------------------------------------------------ keyspace, result

KeyspaceSize(s) ==
    (IF \E i \in DOMAIN s : char_is_lower(s[i]) THEN 26 ELSE 0)
    + (IF \E i \in DOMAIN s : char_is_upper(s[i]) THEN 26 ELSE 0)
    + (IF \E i \in DOMAIN s : char_is_digit(s[i]) THEN 10 ELSE 0)
    + (IF \E i \in DOMAIN s :
            ~char_is_lower(s[i]) /\ ~char_is_upper(s[i]) /\ ~char_is_digit(s[i])
       THEN 32 ELSE 0)

\* math.log(k) / math.log(26), for the sizes KeyspaceSize can return.  The
\* quotient is irrational unless k = 26: the model takes it in thousandths
\* and lets it be either neighbour of the exact value, rounded down or up.
Log26(k) ==
    CASE k = 10 -> {706, 707}   [] k = 26 -> {1000}       [] k = 32 -> {1063, 1064}
      [] k = 36 -> {1099, 1100} [] k = 42 -> {1147, 1148} [] k = 52 -> {1212, 1213}
      [] k = 58 -> {1246, 1247} [] k = 62 -> {1266, 1267} [] k = 68 -> {1295, 1296}
      [] k = 84 -> {1359, 1360} [] k = 94 -> {1394, 1395}

\* if orig_pass_entropy < min_entropy: min_entropy = orig_pass_entropy
TakeRawIfLowerMutant(orig_entropy, min_variants) ==
    IF orig_entropy > min_variants THEN orig_entropy ELSE min_variants

TakeRawIfLower(orig_entropy, min_variants) ==
    IF orig_entropy < min_variants THEN orig_entropy ELSE min_variants

\* int(x) for the quotient a / b with b > 0: truncation toward zero.
IntOfQuotient(a, b) == IF a >= 0 THEN a \div b ELSE -((-a) \div b)

\* min(int(bits * 100 / 52), 100) without the cap.
StrengthOfMutant(b) == IntOfQuotient(b * 25, 13 * Unit * Milli)

\* min(int(bits * 100 / 52), 100), bits in 1/(Unit*Milli); 100/52 is taken
\* as 25/13 to keep the product within 32 bits.
StrengthOf(b) == Min(IntOfQuotient(b * 25, 13 * Unit * Milli), 100)

\* -------------------------------------------------------------------- state

VARIABLES
    pc,                  \* the position of the operation being run
    \* get_entropy_bits / get_password_strength
    password,            \* the argument
    orig_pass,           \* orig_pass after handle_license_plates
    keyspace_multiplier, \* in thousandths
    passwords_variants,  \* the KeepMinDict: key -> PassVariant
    inserted,            \* every __setitem__ call made so far, in order
    pending,             \* the values() snapshot the stripping loop still has to visit
    DICT_WORDS,          \* the module-level word list
    min_entropy,
    orig_pass_entropy,
    bits,                \* the value get_entropy_bits returns, in 1/(Unit*Milli) bit
    strength,            \* the value get_password_strength returns
    \* longest_common_substring
    lcs_s1, lcs_s2,      \* the arguments
    lcs_x,               \* rows of the outer loop done
    lcs_st,              \* m1, longest, x_longest
    lcs_result,          \* the returned pair
    \* the stripping loop over KEYBOARD_SEQUENCES
    strip_in,            \* cur_pass.password
    strip_prev,          \* tmp_pass before the last remove_sequence
    strip_cur,           \* tmp_pass
    strip_idx,           \* table entries done
    \* concurrent callers of load_dict_words
    dictionary_file,     \* the lines of dictionary.txt
    th_pc,               \* each caller's position
    th_local,            \* what each caller read from the file
    th_calls,            \* calls each caller has completed
    th_ret,              \* what each caller's last call returned
    loads                \* how many times the file was read

entropyVars ==
    <<password, orig_pass, keyspace_multiplier, passwords_variants, inserted,
      pending, min_entropy, orig_pass_entropy, bits, strength>>

lcsVars == <<lcs_s1, lcs_s2, lcs_x, lcs_st, lcs_result>>

stripVars == <<strip_in, strip_prev, strip_cur, strip_idx>>

loadVars == <<dictionary_file, th_pc, th_local, th_calls, th_ret, loads>>

vars == <<pc, entropyVars, DICT_WORDS, lcsVars, stripVars, loadVars>>

\* DICT_WORDS = None
None == [isNone |-> TRUE, words |-> <<>>]

\* The values the variables of an operation hold while another one is run.
EntropyIdle ==
    /\ password = <<>>
    /\ orig_pass = <<>>
    /\ keyspace_multiplier = 0
    /\ passwords_variants = <<>>
    /\ inserted = <<>>
    /\ pending = <<>>
    /\ min_entropy = 0
    /\ orig_pass_entropy = 0
    /\ bits = 0
    /\ strength = 0

LcsIdle ==
    /\ lcs_s1 = <<>>
    /\ lcs_s2 = <<>>
    /\ lcs_x = 0
    /\ lcs_st = LcsInit(<<>>)
    /\ lcs_result = [start |-> 0, sub |-> <<>>]

StripIdle ==
    /\ strip_in = <<>>
    /\ strip_prev = <<>>
    /\ strip_cur = <<>>
    /\ strip_idx = 0

LoadIdle ==
    /\ dictionary_file = <<>>
    /\ th_pc = <<>>
    /\ th_local = <<>>
    /\ th_calls = <<>>
    /\ th_ret = <<>>
    /\ loads = 0

\* ------------------------------------- SpecLCS: longest_common_substring

LcsChars == {"a", "b", "c"}

InitLCS ==
    /\ pc = "lcs_loop"
    /\ lcs_s1 \in StringsUpTo(LcsChars, MaxLcsLen)
    /\ lcs_s2 \in StringsUpTo(LcsChars, MaxLcsLen)
    /\ lcs_x = 0
    /\ lcs_st = LcsInit(lcs_s2)
    /\ lcs_result = [start |-> 0, sub |-> <<>>]
    /\ EntropyIdle /\ DICT_WORDS = None /\ StripIdle /\ LoadIdle

\* for x, s1_char in enumerate1: one row.
LcsOuterLoop ==
    /\ pc = "lcs_loop"
    /\ lcs_x < Len(lcs_s1)
    /\ lcs_x' = lcs_x + 1
    /\ lcs_st' = LcsStep(lcs_st, lcs_s1, lcs_s2, lcs_x + 1)
    /\ UNCHANGED <<pc, lcs_s1, lcs_s2, lcs_result>>
    /\ UNCHANGED <<entropyVars, DICT_WORDS, stripVars, loadVars>>

\* start = x_longest - longest; return (start, s1[start:x_longest])
LcsFinish ==
    /\ pc = "lcs_loop"
    /\ lcs_x = Len(lcs_s1)
    /\ lcs_result' = LcsReturn(lcs_st, lcs_s1)
    /\ pc' = "lcs_done"
    /\ UNCHANGED <<lcs_s1, lcs_s2, lcs_x, lcs_st>>
    /\ UNCHANGED <<entropyVars, DICT_WORDS, stripVars, loadVars>>

NextLCS == LcsOuterLoop \/ LcsFinish

SpecLCS == InitLCS /\ [][NextLCS]_vars

\* A common substring of length n starts at the 0-based offset i of a.
CommonAt(a, b, i, n) == i + n <= Len(a) /\ Contains(b, Slice(a, i, i + n))

\* C5: longest_common_substring(a, b) returns (start, sub) with
\* sub = a[start : start+len(sub)], sub a contiguous substring of b, no common
\* substring longer than sub, and start the smallest offset in a of a common
\* substring of that length; offset 0 and the empty string when nothing is common.
C5_LcsLongestFirst ==
    pc = "lcs_done" =>
        LET start == lcs_result.start
            sub == lcs_result.sub
            n == Len(sub)
        IN  /\ start >= 0
            /\ OccursAt(sub, lcs_s1, start)
            /\ Contains(lcs_s2, sub)
            /\ \A i \in 0..Len(lcs_s1) : \A k \in 1..Len(lcs_s1) :
                   CommonAt(lcs_s1, lcs_s2, i, k) => k <= n
            /\ \A i \in 0..(start - 1) : ~CommonAt(lcs_s1, lcs_s2, i, n)
            /\ (n = 0 => start = 0)

\* A tie: a second common substring of the maximal length starts later in a.
C5_Witness ==
    /\ pc = "lcs_done"
    /\ Len(lcs_result.sub) >= 2
    /\ lcs_result.sub # lcs_s1
    /\ \E i \in (lcs_result.start + 1)..Len(lcs_s1) :
           CommonAt(lcs_s1, lcs_s2, i, Len(lcs_result.sub))

\* --------------------- SpecStrip: remove_sequence over KEYBOARD_SEQUENCES

\* Inputs are concatenations of these pieces: fragments of several table
\* entries, and single characters.
StripPieces ==
    { <<"1", "2", "3">>, <<"q", "a", "z">>, <<"a", "b", "c", "d">>, <<"1", "q">>,
      <<"1">>, <<"3">>, <<"a">>, <<"w">>, <<"X">> }

RECURSIVE Concat(_)
Concat(ps) == IF ps = <<>> THEN <<>> ELSE Head(ps) \o Concat(Tail(ps))

StripInputs == {Concat(ps) : ps \in StringsUpTo(StripPieces, MaxPieces)}

InitStrip ==
    /\ pc = "strip_loop"
    /\ strip_in \in StripInputs
    /\ strip_prev = strip_in
    /\ strip_cur = strip_in
    /\ strip_idx = 0
    /\ EntropyIdle /\ DICT_WORDS = None /\ LcsIdle /\ LoadIdle

\* for keyboard_seq in KEYBOARD_SEQUENCES: tmp_pass = remove_sequence(tmp_pass, keyboard_seq)
StripEntry ==
    /\ pc = "strip_loop"
    /\ strip_idx < Len(KEYBOARD_SEQUENCES)
    /\ strip_prev' = strip_cur
    /\ strip_cur' = remove_sequence(strip_cur, KEYBOARD_SEQUENCES[strip_idx + 1])
    /\ strip_idx' = strip_idx + 1
    /\ UNCHANGED <<pc, strip_in>>
    /\ UNCHANGED <<entropyVars, DICT_WORDS, lcsVars, loadVars>>

StripFinish ==
    /\ pc = "strip_loop"
    /\ strip_idx = Len(KEYBOARD_SEQUENCES)
    /\ pc' = "strip_done"
    /\ UNCHANGED <<stripVars, entropyVars, DICT_WORDS, lcsVars, loadVars>>

NextStrip == StripEntry \/ StripFinish

SpecStrip == InitStrip /\ [][NextStrip]_vars

CountNul(s) == Cardinality({i \in DOMAIN s : s[i] = NUL})

\* C4 as stated: every remove_sequence call returns a string as long as its input.
C4_LengthPreserved == Len(strip_cur) = Len(strip_prev)

\* C4 amended: remove_sequence replaces each matched span, of more than 2
\* characters, by exactly two sentinels: the output is shorter than the input
\* by at least one character per matched span and is the input itself when
\* nothing matched; it is never longer.
C4_SpanBecomesTwoSentinels ==
    LET added == CountNul(strip_cur) - CountNul(strip_prev)
        removed == (Len(strip_prev) - CountNul(strip_prev))
                   - (Len(strip_cur) - CountNul(strip_cur))
        spans == added \div 2
    IN  /\ added >= 0
        /\ added = 2 * spans
        /\ removed >= 3 * spans
        /\ Len(strip_prev) - Len(strip_cur) >= spans
        /\ (spans = 0 => strip_cur = strip_prev)

\* One entry matched two spans of the same input.
C4_Witness ==
    /\ strip_idx > 0
    /\ CountNul(strip_cur) - CountNul(strip_prev) = 4
    /\ Len(strip_cur) < Len(strip_prev)

\* s and the table entry k share a substring of more than 2 characters.
SharesLong(s, k) ==
    \E i \in 0..(Len(s) - 3) : Contains(KEYBOARD_SEQUENCES[k], Slice(s, i, i + 3))

\* C9: once remove_sequence has been applied for the table entries 1..k in
\* table order, the string shares no substring of more than 2 characters with
\* any of them, the entries processed earlier included.
C9_AllEntriesExcised == \A k \in 1..strip_idx : ~SharesLong(strip_cur, k)

\* A later entry matched after an earlier entry had matched.
C9_Witness ==
    /\ pc = "strip_done"
    /\ \E k \in 1..Len(KEYBOARD_SEQUENCES) :
           /\ StripUpTo(strip_in, k - 1) # strip_in
           /\ StripUpTo(strip_in, k) # StripUpTo(strip_in, k - 1)

\* ------------------------------- Spec: get_entropy_bits, get_password_strength

\* The alphabet of the exhaustively enumerated passwords: lower case, upper
\* case, a digit with two leet readings, and a symbol with one.
PassChars == {"a", "b", "c", "A", "1", "@"}

Str_acegik == <<"a", "c", "e", "g", "i", "k", "m", "o", "q", "s", "u", "w", "y", "b", "d", "f", "h", "j", "l", "n">>

\* Longer passwords: words of the word lists, keyboard walks, a licence
\* plate, and long strings of pairwise distinct characters.
SamplePasswords ==
    { <<"d", "r", "a", "g", "o", "n">>,
      <<"m", "y", "d", "r", "a", "g", "o", "n">>,
      <<"c", "a", "b", "x", "y", "z", "w">>,
      <<"c", "a", "b", "c", "a", "b">>,
      <<"a", "a", "a", "a", "a", "b">>,
      <<"q", "w", "e", "r", "t", "y", "1", "2">>,
      <<"1", "2", "-", "a", "b", "-", "3", "4">>,
      <<"1", "2", "-", "A", "B", "-", "3", "4">>,
      Str_acegik,
      SubSeq(Str_acegik, 1, 19),
      Str_acegik \o <<"p">>,
      <<"a", "C", "e", "g", "i", "k", "m", "0", "q", "s", "u", "w", "#", "b", "d", "f", "h", "j", "l", "n">> }

Passwords == StringsUpTo(PassChars, MaxLen) \cup SamplePasswords

Word_cab == <<"c", "a", "b">>
Word_dragon == <<"d", "r", "a", "g", "o", "n">>

\* The contents dictionary.txt may have.
WordLists ==
    { <<>>, <<Word_cab>>, <<Word_dragon>>,
      <<Word_cab, Word_dragon>>, <<Word_dragon, Word_cab>> }

Init ==
    /\ pc = "start"
    /\ password \in Passwords
    /\ orig_pass = <<>>
    /\ keyspace_multiplier = 0
    /\ passwords_variants = <<>>
    /\ inserted = <<>>
    /\ pending = <<>>
    /\ DICT_WORDS = None
    /\ min_entropy = 0
    /\ orig_pass_entropy = 0
    /\ bits = 0
    /\ strength = 0
    /\ LcsIdle /\ StripIdle /\ LoadIdle

otherVars == <<lcsVars, stripVars, loadVars>>

\* if not orig_pass: return 0
ReturnEmpty ==
    /\ pc = "start"
    /\ password = <<>>
    /\ bits' = 0
    /\ pc' = "returned"
    /\ UNCHANGED <<password, orig_pass, keyspace_multiplier, passwords_variants,
                   inserted, pending, DICT_WORDS, min_entropy, orig_pass_entropy,
                   strength, otherVars>>

\* if n_different_characters == 1: return 6
ReturnOneCharacter ==
    /\ pc = "start"
    /\ Cardinality(Range(password)) = 1
    /\ bits' = 6 * Unit * Milli
    /\ pc' = "returned"
    /\ UNCHANGED <<password, orig_pass, keyspace_multiplier, passwords_variants,
                   inserted, pending, DICT_WORDS, min_entropy, orig_pass_entropy,
                   strength, otherVars>>

\* handle_license_plates, the character classes and the keyspace multiplier.
Normalize ==
    /\ pc = "start"
    /\ Cardinality(Range(password)) > 1
    /\ orig_pass' = handle_license_plates(password)
    /\ keyspace_multiplier' \in Log26(KeyspaceSize(orig_pass'))
    /\ pc' = "lower"
    /\ UNCHANGED <<password, passwords_variants, inserted, pending, DICT_WORDS,
                   min_entropy, orig_pass_entropy, bits, strength, otherVars>>

\* passwords_variants[value.password] = value, value a new PassVariant.
Insert(pwd, entropy) ==
    LET value == PassVariant(pwd, entropy, Len(inserted) + 1)
    IN  /\ passwords_variants' = KeepMinDict_setitem(passwords_variants, pwd, value)
        /\ inserted' = Append(inserted, value)

lower_pass == StrLower(orig_pass)

\* reverse_password(lower_pass).entropy, lower_pass.entropy being 0
rev_entropy == 0 + 1 * Unit

InsertLower ==
    /\ pc = "lower"
    /\ Insert(lower_pass, 0)
    /\ pc' = "rev"
    /\ UNCHANGED <<password, orig_pass, keyspace_multiplier, pending, DICT_WORDS,
                   min_entropy, orig_pass_entropy, bits, strength, otherVars>>

InsertReversed ==
    /\ pc = "rev"
    /\ Insert(reverse_string(lower_pass), rev_entropy)
    /\ pc' = "leet"
    /\ UNCHANGED <<password, orig_pass, keyspace_multiplier, pending, DICT_WORDS,
                   min_entropy, orig_pass_entropy, bits, strength, otherVars>>

InsertLeet ==
    /\ pc = "leet"
    /\ Insert(Translate(lower_pass, leetspeakmap), 1 * Unit)
    /\ pc' = "leet2"
    /\ UNCHANGED <<password, orig_pass, keyspace_multiplier, pending, DICT_WORDS,
                   min_entropy, orig_pass_entropy, bits, strength, otherVars>>

\* The sequence of the values of a dict, in the order of their insertion.
Values(d, log) ==
    SelectSeq(log, LAMBDA v : v.password \in DOMAIN d /\ d[v.password].id = v.id)

\* The last base variant; then the stripping loop takes its values() snapshot.
InsertLeet2 ==
    /\ pc = "leet2"
    /\ Insert(Translate(lower_pass, leetspeakmap2), 1 * Unit)
    /\ pending' = Values(passwords_variants', inserted')
    /\ pc' = "strip"
    /\ UNCHANGED <<password, orig_pass, keyspace_multiplier, DICT_WORDS,
                   min_entropy, orig_pass_entropy, bits, strength, otherVars>>

\* One iteration of `for cur_pass in passwords_variants.values()`.
StripVariant ==
    /\ pc = "strip"
    /\ pending # <<>>
    /\ LET cur_pass == Head(pending)
           tmp_pass == StripAll(cur_pass.password)
       IN  IF cur_pass.password # tmp_pass
           THEN Insert(tmp_pass, cur_pass.entropy)
           ELSE UNCHANGED <<passwords_variants, inserted>>
    /\ pending' = Tail(pending)
    /\ UNCHANGED <<pc, password, orig_pass, keyspace_multiplier, DICT_WORDS,
                   min_entropy, orig_pass_entropy, bits, strength, otherVars>>

\* load_dict_words() and the dictionary loop over every variant.
DictDetect ==
    /\ pc = "strip"
    /\ pending = <<>>
    /\ \E file \in WordLists :
          /\ DICT_WORDS' = load_dict_words(DICT_WORDS, file)
          /\ passwords_variants' =
                [k \in DOMAIN passwords_variants |->
                    [passwords_variants[k] EXCEPT
                        !.entropy = @ + DictBonus(passwords_variants[k].password,
                                                  DICT_WORDS'.words)]]
    /\ pc' = "nist"
    /\ UNCHANGED <<password, orig_pass, keyspace_multiplier, inserted, pending,
                   min_entropy, orig_pass_entropy, bits, strength, otherVars>>

\* for pwd in passwords_variants.values(): pwd.entropy += get_NIST_num_bits(pwd.password)
AddNistBits ==
    /\ pc = "nist"
    /\ passwords_variants' =
          [k \in DOMAIN passwords_variants |->
              [passwords_variants[k] EXCEPT
                  !.entropy = @ + get_NIST_num_bits(passwords_variants[k].password, FALSE)]]
    /\ pc' = "min"
    /\ UNCHANGED <<password, orig_pass, keyspace_multiplier, inserted, pending,
                   DICT_WORDS, min_entropy, orig_pass_entropy, bits, strength, otherVars>>

\* min(pass_variant.entropy for pass_variant in passwords_variants.values())
MinVariantEntropy(d) ==
    CHOOSE e \in {d[k].entropy : k \in DOMAIN d} : \A k \in DOMAIN d : e <= d[k].entropy

\* The minimum with the raw password's entropy, and the scaling.
Aggregate ==
    /\ pc = "min"
    /\ orig_pass_entropy' = get_NIST_num_bits(orig_pass, TRUE) + 6 * Unit
    /\ min_entropy' = TakeRawIfLower(orig_pass_entropy', MinVariantEntropy(passwords_variants))
    /\ bits' = min_entropy' * keyspace_multiplier
    /\ pc' = "returned"
    /\ UNCHANGED <<password, orig_pass, keyspace_multiplier, passwords_variants,
                   inserted, pending, DICT_WORDS, strength, otherVars>>

\* get_password_strength on the value get_entropy_bits returned.
Strength ==
    /\ pc = "returned"
    /\ strength' = StrengthOf(bits)
    /\ pc' = "done"
    /\ UNCHANGED <<password, orig_pass, keyspace_multiplier, passwords_variants,
                   inserted, pending, DICT_WORDS, min_entropy, orig_pass_entropy,
                   bits, otherVars>>

Next ==
    \/ ReturnEmpty
    \/ ReturnOneCharacter
    \/ Normalize
    \/ InsertLower
    \/ InsertReversed
    \/ InsertLeet
    \/ InsertLeet2
    \/ StripVariant
    \/ DictDetect
    \/ AddNistBits
    \/ Aggregate
    \/ Strength

Spec == Init /\ [][Next]_vars

\* ------------------------------------------------ claims on get_entropy_bits

Returned == pc \in {"returned", "done"}

TwoDistinct == Cardinality(Range(password)) > 1

\* The adjustment a stored variant was inserted with.
InsertedEntropy(key) == inserted[passwords_variants[key].id].entropy

\* C1: for a password of at least two distinct characters, the value that is
\* scaled by the keyspace multiplier is the minimum of every variant's final
\* value (its adjustment after dictionary detection plus the closed-form bits
\* of the variant string) and of the repetition-aware bits of the
\* plate-normalized password plus 6: below or equal to each, equal to one.
C1_MinOfVariantsAndRaw ==
    (Returned /\ TwoDistinct) =>
        /\ orig_pass_entropy
              = get_NIST_num_bits(handle_license_plates(password), TRUE) + 6 * Unit
        /\ \A k \in DOMAIN passwords_variants :
              /\ passwords_variants[k].entropy
                    = InsertedEntropy(k) + DictBonus(k, DICT_WORDS.words)
                      + get_NIST_num_bits(k, FALSE)
              /\ min_entropy <= passwords_variants[k].entropy
        /\ min_entropy <= orig_pass_entropy
        /\ \/ min_entropy = orig_pass_entropy
           \/ \E k \in DOMAIN passwords_variants : min_entropy = passwords_variants[k].entropy
        /\ bits = min_entropy * keyspace_multiplier

\* The raw path is strictly below every variant and is the value taken.
C1_Witness ==
    /\ Returned /\ TwoDistinct
    /\ min_entropy = orig_pass_entropy
    /\ \A k \in DOMAIN passwords_variants : orig_pass_entropy < passwords_variants[k].entropy

\* Section 4.5: the word w is accepted for the clean string.
WordAccepted(clean, w) ==
    /\ Len(w) >= 3
    /\ Contains(clean, w)
    /\ \/ Len(w) >= 6
       \/ /\ Len(w) * 2 > CountLower(clean)
          /\ \/ IndexOf(clean, w) = 0
             \/ ~char_is_lower(clean[IndexOf(clean, w)])

BonusGranted(k) == passwords_variants[k].entropy - InsertedEntropy(k) = 6 * Unit

NoWordAccepted(k) ==
    \A i \in DOMAIN DICT_WORDS.words : ~WordAccepted(CleanPass(k), DICT_WORDS.words[i])

\* C2: dictionary detection adds the +6 bonus to a variant if and only if no
\* word of the list is accepted for its clean string, whatever the length of
\* the clean string and the order of the list.
C2_BonusIffNoWordAccepted ==
    pc = "nist" =>
        \A k \in DOMAIN passwords_variants : BonusGranted(k) <=> NoWordAccepted(k)

\* What the code does: the equivalence for clean strings of 3 characters or
\* more, and no bonus for shorter ones.
BonusFromLength3 ==
    pc = "nist" =>
        \A k \in DOMAIN passwords_variants :
            IF Len(CleanPass(k)) >= 3
            THEN BonusGranted(k) <=> NoWordAccepted(k)
            ELSE ~BonusGranted(k)

GenerationDone == pc \in {"strip", "nist", "min", "returned", "done"}

HalfBit == (Unit * Milli) \div 2

\* C7: get_password_strength returns an integer of 0..100, equal to
\* min(floor(bits * 100 / 52), 100); bits is never negative; the score does
\* not decrease when bits grows.
C7_StrengthClamped ==
    pc = "done" =>
        /\ bits >= 0
        /\ strength \in 0..100
        /\ strength = Min((bits * 25) \div (13 * Unit * Milli), 100)
        /\ \A d \in 0..8 :
              /\ StrengthOf(bits + d * HalfBit) >= strength
              /\ bits - d * HalfBit >= 0 => StrengthOf(bits - d * HalfBit) <= strength

\* The cap acts: bits is above the 52 bits of full strength.
C7_Witness ==
    /\ pc = "done"
    /\ strength = 100
    /\ (bits * 25) \div (13 * Unit * Milli) > 100

PairwiseDistinct(s) == Cardinality(Range(s)) = Len(s)

\* C10: for a password whose characters are pairwise distinct the raw path
\* (repetition-aware bits + 6) is not below the minimum over the variants.
C10_RawNotLowerWhenDistinct ==
    (Returned /\ TwoDistinct /\ PairwiseDistinct(password)) =>
        orig_pass_entropy >= MinVariantEntropy(passwords_variants)

\* ------------------------------------------ SpecPlates: handle_license_plates

PlatePairs ==
    { <<"1", "2">>, <<"3", "4">>, <<"A", "B">>, <<"a", "b">>, <<"a", "B">>, <<"1", "a">> }

PlateJoiners == {"-", ".", "_", "+"}

PlateAffixes == { <<>>, <<"x">>, <<"-", "a", "b", "-", "1", "2">> }

InitPlates ==
    /\ pc = "start"
    /\ \E pre \in PlateAffixes, suf \in PlateAffixes, g1 \in PlatePairs,
          g2 \in PlatePairs, g3 \in PlatePairs, j1 \in PlateJoiners, j2 \in PlateJoiners :
          password = pre \o g1 \o <<j1>> \o g2 \o <<j2>> \o g3 \o suf
    /\ orig_pass = <<>>
    /\ keyspace_multiplier = 0
    /\ passwords_variants = <<>>
    /\ inserted = <<>>
    /\ pending = <<>>
    /\ DICT_WORDS = None
    /\ min_entropy = 0
    /\ orig_pass_entropy = 0
    /\ bits = 0
    /\ strength = 0
    /\ LcsIdle /\ StripIdle /\ LoadIdle

NextPlates == Normalize

SpecPlates == InitPlates /\ [][NextPlates]_vars

Token_12AB34 == <<"1", "2", "-", "A", "B", "-", "3", "4">>

\* C3: a password whose first licence-plate match is the token "12-AB-34"
\* is normalized before any other analysis, the 8-character token being
\* replaced by "12AB34".
C3_UpperCasePlateNormalized ==
    LET start == PlateSearch(password)
    IN  (pc = "lower" /\ start >= 0 /\ Slice(password, start, start + 8) = Token_12AB34) =>
            orig_pass = Slice(password, 0, start)
                        \o <<"1", "2", "A", "B", "3", "4">>
                        \o Slice(password, start + 8, Len(password))

\* -------------------------------- SpecLoad: concurrent load_dict_words calls

\* Concurrent callers of get_entropy_bits.
NThreads == 2

Threads == 1..NThreads

InitLoad ==
    /\ pc = "load"
    /\ DICT_WORDS = None
    /\ dictionary_file \in WordLists
    /\ th_pc = [t \in Threads |-> "call"]
    /\ th_local = [t \in Threads |-> <<>>]
    /\ th_calls = [t \in Threads |-> 0]
    /\ th_ret = [t \in Threads |-> None]
    /\ loads = 0
    /\ EntropyIdle /\ LcsIdle /\ StripIdle

\* if not DICT_WORDS:
LoadCheck(t) ==
    /\ th_pc[t] = "call"
    /\ th_calls[t] < MaxCalls
    /\ th_pc' = [th_pc EXCEPT ![t] = IF Falsy(DICT_WORDS) THEN "open" ELSE "return"]
    /\ UNCHANGED <<pc, DICT_WORDS, dictionary_file, th_local, th_calls, th_ret, loads,
                   entropyVars, lcsVars, stripVars>>

\* with open(dictionary_path) as f: f.read().splitlines()
LoadRead(t) ==
    /\ th_pc[t] = "open"
    /\ th_local' = [th_local EXCEPT ![t] = dictionary_file]
    /\ loads' = loads + 1
    /\ th_pc' = [th_pc EXCEPT ![t] = "assign"]
    /\ UNCHANGED <<pc, DICT_WORDS, dictionary_file, th_calls, th_ret,
                   entropyVars, lcsVars, stripVars>>

\* DICT_WORDS = ...
LoadAssign(t) ==
    /\ th_pc[t] = "assign"
    /\ DICT_WORDS' = [isNone |-> FALSE, words |-> th_local[t]]
    /\ th_pc' = [th_pc EXCEPT ![t] = "return"]
    /\ UNCHANGED <<pc, dictionary_file, th_local, th_calls, th_ret, loads,
                   entropyVars, lcsVars, stripVars>>

\* return DICT_WORDS
LoadReturn(t) ==
    /\ th_pc[t] = "return"
    /\ th_ret' = [th_ret EXCEPT ![t] = DICT_WORDS]
    /\ th_calls' = [th_calls EXCEPT ![t] = @ + 1]
    /\ th_pc' = [th_pc EXCEPT ![t] = "call"]
    /\ UNCHANGED <<pc, DICT_WORDS, dictionary_file, th_local, loads,
                   entropyVars, lcsVars, stripVars>>

NextLoad ==
    \E t \in Threads : LoadCheck(t) \/ LoadRead(t) \/ LoadAssign(t) \/ LoadReturn(t)

SpecLoad == InitLoad /\ [][NextLoad]_vars

\* C8: with concurrent first calls the on-demand initialization is performed
\* exactly once: the dictionary file is read by only one of the callers.
C8_LoadedOnce == dictionary_file # <<>> => loads <= 1

====
